---- MODULE Spec2Model ----
(***************************************************************************)
(* Near-image deduplication: the two clusterers of src/deduplication.py    *)
(* (LSHDeduplicator, BruteForceDeduplicator) and the flattener they share. *)
(* One behaviour is one caller: it holds an input sequence imgs, may       *)
(* construct an LSHDeduplicator, and calls deduplicate(imgs) on either     *)
(* clusterer, one call after the other.                                    *)
(*                                                                         *)
(* A HashedImage is identified by the input position it was created for    *)
(* (object identity, the `is` tests of the code); its data is imgs[i], its *)
(* hash is hash_func(imgs[i]) and its duplicates list is duplicates[i].    *)
(* Bit positions are 0-based as in the code; sequences are 1-based.        *)
(***************************************************************************)
EXTENDS Naturals, Sequences, FiniteSets

VARIABLES imgs, projections, self, pc, hash_table, result, duplicates,
          unique, idx, g, matched, queue, img, i, returned, prev, calls,
          trace, hs, resized, fp, dpc

(* The state of the clusterers and of their caller. *)
dedup_vars == <<imgs, projections, self, pc, hash_table, result, duplicates,
                unique, idx, g, matched, queue, img, i, returned, prev, calls,
                trace>>

(* The state of a dhash call: its hash_size argument, the grid returned by *)
(* cv2.resize, the returned array and the control position.                *)
dhash_vars == <<hs, resized, fp, dpc>>

vars == <<dedup_vars, dhash_vars>>

----------------------------------------------------------------------------
(* Bounds of the model. *)
MaxImgs == 3        \* longest input sequence
MaxCalls == 2       \* deduplicate calls made by one caller
k == 2              \* LSHDeduplicator(k=...): positions per band
l == 2              \* LSHDeduplicator(l=...): number of bands
FlattenImgs == 4    \* input length of the flattener's specification
TermImgs == 3       \* input length of the termination specification
MaxHashSize == 2    \* largest hash_size whose grids are all enumerated
MaxSample == 2      \* largest grayscale sample of a resized grid
SmallHashSize == 4  \* a hash_size other than the default

(* Program constants. *)
d == 64             \* LSHDeduplicator(d=64)
hash_size == 8      \* dhash(image, hash_size=8)
BFScale == 64       \* hamming(...) * 64 in BruteForceDeduplicator
Threshold == 10     \* distance < 10

(* What the caller holds of a call: nothing yet, or the returned groups. *)
None == [done |-> FALSE, groups |-> <<>>]
Returned(groups) == [done |-> TRUE, groups |-> groups]

----------------------------------------------------------------------------
(* The pictures the caller draws its input from, and their fingerprints.   *)
(* Bits(n, ones) is the fingerprint of n bits whose 1 bits are at the      *)
(* 0-based positions in ones.                                              *)
Bits(n, ones) == [p \in 1..n |-> IF (p - 1) \in ones THEN 1 ELSE 0]

Pictures == {"A", "X", "Y", "W", "M"}

(* A, X, Y, W are hashed by the default dhash (hash_size*hash_size bits):  *)
(*   A-X 1, A-Y 1, X-Y 2, Y-W 9, A-W 10, X-W 11 differing bits.           *)
(* M is a picture for which a plugged-in hash function returns one more    *)
(* bit than for the others.                                                *)
(* P and Q are hashed by dhash with hash_size = SmallHashSize and differ   *)
(* in 3 bits; they occur only in the inputs of SpecAnyLength.              *)
Fingerprint(px) ==
    CASE px = "A" -> Bits(hash_size * hash_size, {})
      [] px = "X" -> Bits(hash_size * hash_size, {0})
      [] px = "Y" -> Bits(hash_size * hash_size, {9})
      [] px = "W" -> Bits(hash_size * hash_size, 1..10)
      [] px = "M" -> Bits(hash_size * hash_size + 1, {0, 9})
      [] px = "P" -> Bits(SmallHashSize * SmallHashSize, {})
      [] px = "Q" -> Bits(SmallHashSize * SmallHashSize, {0, 1, 2})

(* Bit positions np.random.choice may draw in the model (a subset of        *)
(* range(d)).                                                               *)
Positions == {0, 9}

(* self._hash_func(img) *)
hash_func(image) == Fingerprint(image.px)

(* HashedImage fields of the object created for input position j. *)
data(j) == imgs[j]
hash(j) == hash_func(imgs[j])

----------------------------------------------------------------------------
(* scipy.spatial.distance.hamming(u, v): the fraction of positions at which *)
(* u and v differ, as <<numerator, denominator>>; it raises ValueError     *)
(* when the lengths differ (hammingRaises).                                *)
hammingRaises(u, v) == Len(u) # Len(v)

hamming(u, v) == <<Cardinality({p \in 1..Len(u) : u[p] # v[p]}), Len(u)>>

(* BelowThreshold with `<=` in place of `<`. *)
BelowThresholdInclusive(frac, m) == frac[1] * m <= Threshold * frac[2]

(* frac * m < 10 for the fraction frac = <<num, den>>, in exact arithmetic. *)
(* The code computes it in doubles; for m = 64 the product is exact and    *)
(* 10/64 is a double, so the comparison has the same outcome.              *)
BelowThreshold(frac, m) == frac[1] * m < Threshold * frac[2]

(* LSHIsDuplicate with `<= 10` in place of `< 10`. *)
LSHIsDuplicateInclusive(u, v) == hamming(u, v)[1] * d <= Threshold * hamming(u, v)[2]

(* line 84-85: hamming(hashed_img.hash, potential_duplicate.hash) * self._d < 10 *)
LSHIsDuplicate(u, v) == BelowThreshold(hamming(u, v), d)

(* BFIsDuplicate with `<= 10` in place of `< 10`. *)
BFIsDuplicateInclusive(u, v) == hamming(u, v)[1] * BFScale <= Threshold * hamming(u, v)[2]

(* line 137-138: hamming(img.hash, hashed_images[i].hash) * 64 < 10 *)
BFIsDuplicate(u, v) == BelowThreshold(hamming(u, v), BFScale)

----------------------------------------------------------------------------
(* trace is the history of the current deduplicate call: one event per     *)
(* distance computed (the image, the band being scanned or 0, the          *)
(* candidate, and the value compared with 10 as num/den), per              *)
(* queue.append and per queue.pop.                                         *)
Compared(image, band, cand, value) ==
    [op |-> "distance", img |-> image, band |-> band, cand |-> cand,
     num |-> value[1], den |-> value[2]]
Enqueued(image) ==
    [op |-> "append", img |-> image, band |-> 0, cand |-> 0, num |-> 0, den |-> 1]
Dequeued(image) ==
    [op |-> "pop", img |-> image, band |-> 0, cand |-> 0, num |-> 0, den |-> 1]

(* hamming(u, v) * m, as num/den. *)
Scaled(frac, m) == <<frac[1] * m, frac[2]>>

----------------------------------------------------------------------------
(* Deduplicator._flatten(img): img.data, then each child's flattening in    *)
(* duplicates-list order.                                                   *)
RECURSIVE flatten(_, _), flattenChildren(_, _, _)
flattenChildren(dups, node, c) ==
    IF c > Len(dups[node]) THEN <<>>
    ELSE flatten(dups, dups[node][c]) \o flattenChildren(dups, node, c + 1)

(* _flatten in breadth-first (level) order instead of depth-first order. *)
RECURSIVE LevelOrder(_, _)
LevelOrder(dups, frontier) ==
    IF frontier = <<>> THEN <<>>
    ELSE <<data(Head(frontier))>>
            \o LevelOrder(dups, Tail(frontier) \o dups[Head(frontier)])

flattenLevelOrder(dups, node) == LevelOrder(dups, <<node>>)

flatten(dups, node) == <<data(node)>> \o flattenChildren(dups, node, 1)

(* result = [self._flatten(img) for img in result] *)
FlattenAll(dups, roots) == [r \in 1..Len(roots) |-> flatten(dups, roots[r])]

----------------------------------------------------------------------------
(* Input sequences: n distinct image objects, each showing one picture. *)
Inputs == UNION {[1..n -> Pictures] : n \in 0..MaxImgs}
MakeImgs(f) == [j \in DOMAIN f |-> [id |-> j, px |-> f[j]]]

EmptyTable == [x \in {} |-> <<>>]
NoDuplicates == [j \in 1..Len(imgs) |-> <<>>]

InitWith(inputs) ==
    /\ \E f \in inputs : imgs = MakeImgs(f)
    /\ projections = <<>>
    /\ self = "None"
    /\ pc = "idle"
    /\ hash_table = EmptyTable
    /\ result = <<>>
    /\ duplicates = <<>>
    /\ unique = TRUE
    /\ idx = 0
    /\ g = 0
    /\ matched = <<>>
    /\ queue = <<>>
    /\ img = 0
    /\ i = 0
    /\ returned = [c \in {"LSH", "BruteForce"} |-> None]
    /\ prev = None
    /\ calls = 0
    /\ trace = <<>>

(* No dhash call is under way. *)
DhashIdle ==
    /\ hs = hash_size
    /\ resized = <<>>
    /\ fp = <<>>
    /\ dpc = "idle"

Init == InitWith(Inputs) /\ DhashIdle

CallerReady == pc \in {"idle", "returned", "raised"} /\ calls < MaxCalls

----------------------------------------------------------------------------
(* LSHDeduplicator.__init__: l bands of k positions each, every position   *)
(* drawn independently (np.random.choice samples with replacement).        *)
LSHInit ==
    /\ pc = "idle"
    /\ projections = <<>>
    /\ \E p \in [1..l -> [1..k -> Positions]] : projections' = p
    /\ UNCHANGED <<imgs, self, pc, hash_table, result, duplicates, unique,
                   idx, g, matched, queue, img, i, returned, prev, calls>>
    /\ UNCHANGED trace
    /\ UNCHANGED dhash_vars

(* LSHDeduplicator.deduplicate, lines 66-68 and the creation of the        *)
(* HashedImage objects with empty duplicates lists.                        *)
LSHCall ==
    /\ CallerReady
    /\ projections # <<>>
    /\ self' = "LSH"
    /\ calls' = calls + 1
    /\ hash_table' = EmptyTable
    /\ result' = <<>>
    /\ duplicates' = NoDuplicates
    /\ idx' = 0
    /\ g' = 0
    /\ unique' = TRUE
    /\ pc' = "lsh_img"
    /\ UNCHANGED <<imgs, projections, matched, queue, img, i, returned, prev>>
    /\ trace' = <<>>
    /\ UNCHANGED dhash_vars

(* line 70-72: next img of the outer loop. *)
LSHNextImg ==
    /\ pc = "lsh_img"
    /\ idx < Len(imgs)
    /\ idx' = idx + 1
    /\ unique' = TRUE
    /\ g' = 1
    /\ pc' = "lsh_band"
    /\ UNCHANGED <<imgs, projections, self, hash_table, result, duplicates,
                   matched, queue, img, i, returned, prev, calls>>
    /\ UNCHANGED trace
    /\ UNCHANGED dhash_vars

(* line 74: the key of fingerprint h for band b; numpy raises IndexError   *)
(* for a position outside h.                                               *)
KeyRaises(h, b) == \E p \in 1..Len(b) : b[p] >= Len(h)
Key(h, b) == [p \in 1..Len(b) |-> h[b[p] + 1]]

(* line 75 *)
TableGet(table, key) == IF key \in DOMAIN table THEN table[key] ELSE <<>>
(* TablePut keeping only the image just appended: hash_table[g_x] = l[-1:]  *)
TablePutLastOnly(table, key, lst) ==
    [x \in DOMAIN table \cup {key} |-> IF x = key THEN <<lst[Len(lst)]>> ELSE table[x]]

(* line 91 *)
TablePut(table, key, lst) ==
    [x \in DOMAIN table \cup {key} |-> IF x = key THEN lst ELSE table[x]]

(* line 84: the distance computed for hashed_img and potential_duplicate   *)
(* while band g is scanned.                                                *)
LSHCompared(hashed_img, potential_duplicate) ==
    Compared(hashed_img, g, potential_duplicate,
             Scaled(hamming(hash(hashed_img), hash(potential_duplicate)), d))

(* Scan without the `if not unique: break` of lines 78-79. *)
RECURSIVE ScanNoBreak(_, _, _, _)
ScanNoBreak(lst, c, hashed_img, st) ==
    IF c > Len(lst) THEN st
    ELSE IF hashed_img = lst[c] THEN ScanNoBreak(lst, c + 1, hashed_img, st)
    ELSE IF hammingRaises(hash(hashed_img), hash(lst[c]))
         THEN [st EXCEPT !.raised = TRUE]
    ELSE IF LSHIsDuplicate(hash(hashed_img), hash(lst[c]))
         THEN ScanNoBreak(lst, c + 1, hashed_img,
                          [st EXCEPT !.unique = FALSE,
                                     !.dups[lst[c]] = Append(@, hashed_img),
                                     !.trace = Append(@, LSHCompared(hashed_img, lst[c]))])
    ELSE ScanNoBreak(lst, c + 1, hashed_img,
                     [st EXCEPT !.trace = Append(@, LSHCompared(hashed_img, lst[c]))])

(* Scan without the distance test of lines 84-85: the first candidate of   *)
(* the bucket is accepted.                                                 *)
RECURSIVE ScanUnchecked(_, _, _, _)
ScanUnchecked(lst, c, hashed_img, st) ==
    IF c > Len(lst) THEN st
    ELSE IF ~st.unique THEN st
    ELSE IF hashed_img = lst[c] THEN ScanUnchecked(lst, c + 1, hashed_img, st)
    ELSE ScanUnchecked(lst, c + 1, hashed_img,
                       [st EXCEPT !.unique = FALSE,
                                  !.dups[lst[c]] = Append(@, hashed_img)])

(* lines 77-88: the scan of bucket lst from position c on for hashed_img;  *)
(* st = [unique, dups, raised, trace].                                     *)
RECURSIVE Scan(_, _, _, _)
Scan(lst, c, hashed_img, st) ==
    IF c > Len(lst) THEN st
    ELSE IF ~st.unique THEN st
    ELSE IF hashed_img = lst[c] THEN Scan(lst, c + 1, hashed_img, st)
    ELSE IF hammingRaises(hash(hashed_img), hash(lst[c]))
         THEN [st EXCEPT !.raised = TRUE]
    ELSE IF LSHIsDuplicate(hash(hashed_img), hash(lst[c]))
         THEN Scan(lst, c + 1, hashed_img,
                   [st EXCEPT !.unique = FALSE,
                              !.dups[lst[c]] = Append(@, hashed_img),
                              !.trace = Append(@, LSHCompared(hashed_img, lst[c]))])
    ELSE Scan(lst, c + 1, hashed_img,
              [st EXCEPT !.trace = Append(@, LSHCompared(hashed_img, lst[c]))])

(* LSHBand storing the image only while it is still unique (lines 90-91   *)
(* moved under `if unique`).                                               *)
LSHBandStoresUnique ==
    /\ pc = "lsh_band"
    /\ g <= Len(projections)
    /\ IF KeyRaises(hash(idx), projections[g])
       THEN /\ pc' = "raised"
            /\ UNCHANGED <<unique, duplicates, hash_table, g, trace>>
       ELSE \E g_x \in {Key(hash(idx), projections[g])} :
            \E lst \in {TableGet(hash_table, g_x)} :
            \E st \in {Scan(lst, 1, idx,
                           [unique |-> unique, dups |-> duplicates,
                            raised |-> FALSE, trace |-> trace])} :
                /\ unique' = st.unique
                /\ duplicates' = st.dups
                /\ trace' = st.trace
                /\ IF st.raised
                   THEN /\ pc' = "raised"
                        /\ UNCHANGED <<hash_table, g>>
                   ELSE /\ hash_table' = IF st.unique
                                         THEN TablePut(hash_table, g_x, Append(lst, idx))
                                         ELSE hash_table
                        /\ g' = g + 1
                        /\ pc' = "lsh_band"
    /\ UNCHANGED <<imgs, projections, self, result, idx, matched, queue,
                   img, i, returned, prev, calls>>
    /\ UNCHANGED dhash_vars

(* lines 73-91: one band of the current image. *)
LSHBand ==
    /\ pc = "lsh_band"
    /\ g <= Len(projections)
    /\ IF KeyRaises(hash(idx), projections[g])
       THEN /\ pc' = "raised"
            /\ UNCHANGED <<unique, duplicates, hash_table, g, trace>>
       ELSE \E g_x \in {Key(hash(idx), projections[g])} :
            \E lst \in {TableGet(hash_table, g_x)} :
            \E st \in {Scan(lst, 1, idx,
                           [unique |-> unique, dups |-> duplicates,
                            raised |-> FALSE, trace |-> trace])} :
                /\ unique' = st.unique
                /\ duplicates' = st.dups
                /\ trace' = st.trace
                /\ IF st.raised
                   THEN /\ pc' = "raised"
                        /\ UNCHANGED <<hash_table, g>>
                   ELSE /\ hash_table' = TablePut(hash_table, g_x, Append(lst, idx))
                        /\ g' = g + 1
                        /\ pc' = "lsh_band"
    /\ UNCHANGED <<imgs, projections, self, result, idx, matched, queue,
                   img, i, returned, prev, calls>>
    /\ UNCHANGED dhash_vars

(* LSHEndImg without the `if unique` test of line 93. *)
LSHEndImgAlwaysRoot ==
    /\ pc = "lsh_band"
    /\ g > Len(projections)
    /\ result' = Append(result, idx)
    /\ pc' = "lsh_img"
    /\ UNCHANGED <<imgs, projections, self, hash_table, duplicates, unique,
                   idx, g, matched, queue, img, i, returned, prev, calls>>
    /\ UNCHANGED trace
    /\ UNCHANGED dhash_vars

(* lines 93-94 *)
LSHEndImg ==
    /\ pc = "lsh_band"
    /\ g > Len(projections)
    /\ result' = IF unique THEN Append(result, idx) ELSE result
    /\ pc' = "lsh_img"
    /\ UNCHANGED <<imgs, projections, self, hash_table, duplicates, unique,
                   idx, g, matched, queue, img, i, returned, prev, calls>>
    /\ UNCHANGED trace
    /\ UNCHANGED dhash_vars

(* lines 96-97 *)
LSHReturn ==
    /\ pc = "lsh_img"
    /\ idx = Len(imgs)
    /\ prev' = returned["LSH"]
    /\ returned' = [returned EXCEPT !["LSH"] = Returned(FlattenAll(duplicates, result))]
    /\ pc' = "returned"
    /\ UNCHANGED <<imgs, projections, self, hash_table, result, duplicates,
                   unique, idx, g, matched, queue, img, i, calls>>
    /\ UNCHANGED trace
    /\ UNCHANGED dhash_vars

----------------------------------------------------------------------------
(* BFCall with the matched markers kept from the earlier call (a marker    *)
(* array held by the instance instead of line 117).                        *)
BFCallStaleMatched ==
    /\ CallerReady
    /\ self' = "BruteForce"
    /\ calls' = calls + 1
    /\ result' = <<>>
    /\ duplicates' = NoDuplicates
    /\ matched' = IF Len(matched) = Len(imgs) THEN matched
                  ELSE [j \in 1..Len(imgs) |-> FALSE]
    /\ queue' = <<>>
    /\ img' = 0
    /\ i' = 0
    /\ pc' = "bf_while"
    /\ UNCHANGED <<imgs, projections, hash_table, unique, idx, g, returned, prev>>
    /\ trace' = <<>>
    /\ UNCHANGED dhash_vars

(* BruteForceDeduplicator.deduplicate, lines 114-122. *)
BFCall ==
    /\ CallerReady
    /\ self' = "BruteForce"
    /\ calls' = calls + 1
    /\ result' = <<>>
    /\ duplicates' = NoDuplicates
    /\ matched' = [j \in 1..Len(imgs) |-> FALSE]
    /\ queue' = <<>>
    /\ img' = 0
    /\ i' = 0
    /\ pc' = "bf_while"
    /\ UNCHANGED <<imgs, projections, hash_table, unique, idx, g, returned, prev>>
    /\ trace' = <<>>
    /\ UNCHANGED dhash_vars

(* lines 124-129: the first unmatched image becomes a root. *)
Unmatched == {j \in 1..Len(imgs) : ~matched[j]}
(* First taking the last index, unmatched[-1]. *)
FirstFromEnd(S) == CHOOSE j \in S : \A j2 \in S : j >= j2

(* line 126: unmatched[0], the smallest index of np.where's result. *)
First(S) == CHOOSE j \in S : \A j2 \in S : j <= j2

BFRoot ==
    /\ pc = "bf_while"
    /\ Unmatched # {}
    /\ LET starting_point == First(Unmatched)
       IN  /\ queue' = Append(queue, starting_point)
           /\ result' = Append(result, starting_point)
           /\ matched' = [matched EXCEPT ![starting_point] = TRUE]
           /\ trace' = Append(trace, Enqueued(starting_point))
    /\ pc' = "bf_queue"
    /\ UNCHANGED <<imgs, projections, self, hash_table, duplicates, unique,
                   idx, g, img, i, returned, prev, calls>>
    /\ UNCHANGED dhash_vars

(* BFPop with queue[0] in place of queue.pop(0): the head stays queued. *)
BFPopKeepsHead ==
    /\ pc = "bf_queue"
    /\ queue # <<>>
    /\ img' = Head(queue)
    /\ queue' = queue
    /\ trace' = Append(trace, Dequeued(Head(queue)))
    /\ i' = 1
    /\ pc' = "bf_scan"
    /\ UNCHANGED <<imgs, projections, self, hash_table, result, duplicates,
                   unique, idx, g, matched, returned, prev, calls>>
    /\ UNCHANGED dhash_vars

(* lines 131-133: img = queue.pop(0), start of the scan. *)
BFPop ==
    /\ pc = "bf_queue"
    /\ queue # <<>>
    /\ img' = Head(queue)
    /\ queue' = Tail(queue)
    /\ trace' = Append(trace, Dequeued(Head(queue)))
    /\ i' = 1
    /\ pc' = "bf_scan"
    /\ UNCHANGED <<imgs, projections, self, hash_table, result, duplicates,
                   unique, idx, g, matched, returned, prev, calls>>
    /\ UNCHANGED dhash_vars

(* line 137: the distance computed for img and hashed_images[j]. *)
BFCompared(image, j) ==
    Compared(image, 0, j, Scaled(hamming(hash(image), hash(j)), BFScale))

(* BFScan without the `or matched[i]` test of line 134. *)
BFScanIgnoresMatched ==
    /\ pc = "bf_scan"
    /\ i <= Len(imgs)
    /\ IF img = i
       THEN /\ i' = i + 1
            /\ UNCHANGED <<duplicates, queue, matched, pc, trace>>
       ELSE IF hammingRaises(hash(img), hash(i))
       THEN /\ pc' = "raised"
            /\ UNCHANGED <<duplicates, queue, matched, i, trace>>
       ELSE IF BFIsDuplicate(hash(img), hash(i))
       THEN /\ duplicates' = [duplicates EXCEPT ![img] = Append(@, i)]
            /\ queue' = Append(queue, i)
            /\ matched' = [matched EXCEPT ![i] = TRUE]
            /\ trace' = trace \o <<BFCompared(img, i), Enqueued(i)>>
            /\ i' = i + 1
            /\ UNCHANGED pc
       ELSE /\ trace' = Append(trace, BFCompared(img, i))
            /\ i' = i + 1
            /\ UNCHANGED <<duplicates, queue, matched, pc>>
    /\ UNCHANGED <<imgs, projections, self, hash_table, result, unique,
                   idx, g, img, returned, prev, calls>>
    /\ UNCHANGED dhash_vars

(* lines 133-142: one iteration of the scan. *)
BFScan ==
    /\ pc = "bf_scan"
    /\ i <= Len(imgs)
    /\ IF img = i \/ matched[i]
       THEN /\ i' = i + 1
            /\ UNCHANGED <<duplicates, queue, matched, pc, trace>>
       ELSE IF hammingRaises(hash(img), hash(i))
       THEN /\ pc' = "raised"
            /\ UNCHANGED <<duplicates, queue, matched, i, trace>>
       ELSE IF BFIsDuplicate(hash(img), hash(i))
       THEN /\ duplicates' = [duplicates EXCEPT ![img] = Append(@, i)]
            /\ queue' = Append(queue, i)
            /\ matched' = [matched EXCEPT ![i] = TRUE]
            /\ trace' = trace \o <<BFCompared(img, i), Enqueued(i)>>
            /\ i' = i + 1
            /\ UNCHANGED pc
       ELSE /\ trace' = Append(trace, BFCompared(img, i))
            /\ i' = i + 1
            /\ UNCHANGED <<duplicates, queue, matched, pc>>
    /\ UNCHANGED <<imgs, projections, self, hash_table, result, unique,
                   idx, g, img, returned, prev, calls>>
    /\ UNCHANGED dhash_vars

(* line 133: the scan is exhausted, back to `while queue`. *)
BFScanEnd ==
    /\ pc = "bf_scan"
    /\ i > Len(imgs)
    /\ pc' = "bf_queue"
    /\ UNCHANGED <<imgs, projections, self, hash_table, result, duplicates,
                   unique, idx, g, matched, queue, img, i, returned, prev, calls>>
    /\ UNCHANGED trace
    /\ UNCHANGED dhash_vars

(* line 131: the queue is empty, back to `while not matched.all()`. *)
BFDrained ==
    /\ pc = "bf_queue"
    /\ queue = <<>>
    /\ pc' = "bf_while"
    /\ UNCHANGED <<imgs, projections, self, hash_table, result, duplicates,
                   unique, idx, g, matched, queue, img, i, returned, prev, calls>>
    /\ UNCHANGED trace
    /\ UNCHANGED dhash_vars

(* lines 124, 144-145 *)
BFReturn ==
    /\ pc = "bf_while"
    /\ Unmatched = {}
    /\ prev' = returned["BruteForce"]
    /\ returned' = [returned EXCEPT !["BruteForce"] =
                                  Returned(FlattenAll(duplicates, result))]
    /\ pc' = "returned"
    /\ UNCHANGED <<imgs, projections, self, hash_table, result, duplicates,
                   unique, idx, g, matched, queue, img, i, calls>>
    /\ UNCHANGED trace
    /\ UNCHANGED dhash_vars

----------------------------------------------------------------------------
Next ==
    \/ LSHInit
    \/ LSHCall
    \/ LSHNextImg
    \/ LSHBand
    \/ LSHEndImg
    \/ LSHReturn
    \/ BFCall
    \/ BFRoot
    \/ BFPop
    \/ BFScan
    \/ BFScanEnd
    \/ BFDrained
    \/ BFReturn

Spec == Init /\ [][Next]_vars

(* A deduplicate call is ordinary sequential code: once entered it keeps   *)
(* taking its next step; the caller is not obliged to call.                *)
Step ==
    \/ LSHNextImg
    \/ LSHBand
    \/ LSHEndImg
    \/ LSHReturn
    \/ BFRoot
    \/ BFPop
    \/ BFScan
    \/ BFScanEnd
    \/ BFDrained
    \/ BFReturn

(* Inputs of at most TermImgs images: a chain A-Y-W of near pairs whose     *)
(* ends are not near, and the 65-bit picture.                              *)
TermInputs == UNION {[1..n -> {"A", "Y", "W", "M"}] : n \in 0..TermImgs}

InitFair == InitWith(TermInputs) /\ DhashIdle

FairSpec == InitFair /\ [][Next]_vars /\ WF_vars(Step)

(* The same program on fingerprints of SmallHashSize * SmallHashSize bits, *)
(* the clusterers constructed as before (LSH with d = 64).                 *)
AnyLengthInputs == UNION {[1..n -> {"P", "Q"}] : n \in 0..MaxImgs}

InitAnyLength == InitWith(AnyLengthInputs) /\ DhashIdle

SpecAnyLength == InitAnyLength /\ [][Next]_vars

(* The same program on inputs of FlattenImgs images hashed by the default  *)
(* dhash: the forests are large enough for a node to have both a sibling   *)
(* and a child.                                                            *)
FlattenInputs == [1..FlattenImgs -> Pictures \ {"M"}]
InitFlatten == InitWith(FlattenInputs) /\ DhashIdle
SpecFlatten == InitFlatten /\ [][Next]_vars

----------------------------------------------------------------------------
(* hashes.dhash(image, hash_size).  cv2.cvtColor and cv2.resize are         *)
(* library calls: the model takes the grid cv2.resize returns, whose shape  *)
(* is fixed by the dsize argument (width, height) and whose samples depend  *)
(* on the image.                                                            *)
Samples == 0..MaxSample

(* dsize with width and height exchanged. *)
dsizeSwapped(sz) == <<sz, sz + 1>>

(* line 16: the dsize argument (hash_size + 1, hash_size). *)
dsize(sz) == <<sz + 1, sz>>

(* The grids cv2.resize(gray, (width, height)) may return: height rows of  *)
(* width samples.  Up to MaxHashSize rows every grid is taken, above that  *)
(* the grids whose sample at row r, column c is (a*(c div 2) + b*r) mod    *)
(* (MaxSample + 1), which have equal, brighter and darker neighbours.      *)
Grids(width, height) ==
    IF height <= MaxHashSize
    THEN [1..height -> [1..width -> Samples]]
    ELSE {[r \in 1..height |-> [c \in 1..width |-> (a * (c \div 2) + b * r) % (MaxSample + 1)]] :
              a \in Samples, b \in Samples}

(* line 17: resized[:, 1:] and resized[:, :-1] *)
DropFirstColumn(grid) ==
    [r \in 1..Len(grid) |-> [c \in 1..(Len(grid[r]) - 1) |-> grid[r][c + 1]]]
DropLastColumn(grid) ==
    [r \in 1..Len(grid) |-> [c \in 1..(Len(grid[r]) - 1) |-> grid[r][c]]]

(* line 17: elementwise a > b of two arrays of one shape. *)
Greater(a, b) == [r \in 1..Len(a) |-> [c \in 1..Len(a[r]) |-> a[r][c] > b[r][c]]]

(* line 18: ndarray.flatten(), row after row. *)
RECURSIVE ndflatten(_)
ndflatten(rows) ==
    IF rows = <<>> THEN <<>> ELSE Head(rows) \o ndflatten(Tail(rows))

(* lines 17-18 *)
dhash(grid) ==
    LET diff == Greater(DropFirstColumn(grid), DropLastColumn(grid))
        flat == ndflatten(diff)
    IN  [p \in 1..Len(flat) |-> IF flat[p] THEN 1 ELSE 0]

(* lines 15-16: the image is converted and resized. *)
DhashResize ==
    /\ dpc = "called"
    /\ \E grid \in Grids(dsize(hs)[1], dsize(hs)[2]) : resized' = grid
    /\ dpc' = "resized"
    /\ UNCHANGED <<hs, fp>>
    /\ UNCHANGED dedup_vars

(* lines 17-18 *)
DhashReturn ==
    /\ dpc = "resized"
    /\ fp' = dhash(resized)
    /\ dpc' = "returned"
    /\ UNCHANGED <<hs, resized>>
    /\ UNCHANGED dedup_vars

(* dhash called with hash_size 1..MaxHashSize or with the default. *)
HashSizes == (1..MaxHashSize) \cup {hash_size}

InitDhash ==
    /\ InitWith({<<>>})
    /\ hs \in HashSizes
    /\ resized = <<>>
    /\ fp = <<>>
    /\ dpc = "called"

NextDhash ==
    \/ DhashResize
    \/ DhashReturn

SpecDhash == InitDhash /\ [][NextDhash]_vars

----------------------------------------------------------------------------
(* Vocabulary of the properties.  It is written without the operators of   *)
(* the clusterers: DiffBits counts differing bit positions directly.       *)
N == Len(imgs)
Out == returned[self].groups
LSHOut == returned["LSH"].groups
BFOut == returned["BruteForce"].groups

CountDiffering(u, v) == Cardinality({p \in 1..Len(u) : u[p] # v[p]})
DiffBits(j1, j2) == CountDiffering(hash(j1), hash(j2))
SameLength(j1, j2) == Len(hash(j1)) = Len(hash(j2))
Near(j1, j2) == SameLength(j1, j2) /\ DiffBits(j1, j2) < 10

(* Input positions of the members of a returned group. *)
IdsOf(group) == {group[p].id : p \in 1..Len(group)}

RECURSIVE SumLen(_)
SumLen(groups) ==
    IF groups = <<>> THEN 0 ELSE Len(Head(groups)) + SumLen(Tail(groups))

(* The connected components of the graph of Near pairs: Components[j] is  *)
(* the component of input position j.                                      *)
NearPairs == {pr \in (1..N) \X (1..N) : Near(pr[1], pr[2])}

RECURSIVE GrowComponent(_, _)
GrowComponent(near, S) ==
    LET T == S \cup {j \in 1..N : \E s \in S : <<s, j>> \in near}
    IN  IF T = S THEN S ELSE GrowComponent(near, T)

Components == [j \in 1..N |-> GrowComponent(NearPairs, {j})]

(* C1: whenever deduplicate of either clusterer returns, every group is    *)
(* non-empty, the group sizes sum to the number of input images, and every *)
(* input image occurs in exactly one group, exactly once (also for the     *)
(* empty input, which returns no group).                                   *)
Occurrences(groups, image) ==
    {<<gi, p>> \in (1..Len(groups)) \X (1..N) :
        p <= Len(groups[gi]) /\ groups[gi][p] = image}

C1_Totality ==
    pc = "returned" =>
        /\ \A gi \in 1..Len(Out) : Len(Out[gi]) >= 1
        /\ SumLen(Out) = N
        /\ \A j \in 1..N : Cardinality(Occurrences(Out, imgs[j])) = 1

C1_Witness ==
    /\ pc = "returned"
    /\ self = "LSH"
    /\ returned["BruteForce"].done
    /\ N = 3
    /\ Len(Out) = 2
    /\ Len(BFOut) = 1

(* C2: whenever BruteForceDeduplicator.deduplicate returns, the member     *)
(* sets of its groups are exactly the connected components of the graph    *)
(* that joins two images fewer than 10 bits apart, one group per component.*)
C2_ExactClosure ==
    (pc = "returned" /\ self = "BruteForce") =>
        \E comp \in {Components} :
            /\ {IdsOf(Out[gi]) : gi \in 1..Len(Out)} = {comp[j] : j \in 1..N}
            /\ Len(Out) = Cardinality({comp[j] : j \in 1..N})
            /\ \A j1, j2 \in 1..N :
                  (\E gi \in 1..Len(Out) : {j1, j2} \subseteq IdsOf(Out[gi]))
                      <=> j2 \in comp[j1]

(* A returned group of three linked only through a chain: its first and    *)
(* last members are 10 bits apart.                                         *)
C2_Witness ==
    /\ pc = "returned"
    /\ self = "BruteForce"
    /\ N = 3
    /\ Len(Out) = 1
    /\ \E j1, j2 \in 1..N : SameLength(j1, j2) /\ DiffBits(j1, j2) = 10

(* C3 as stated: in every group returned by LSHDeduplicator.deduplicate    *)
(* every pair of images is fewer than 10 bits apart.                       *)
C3_PairwiseBelowThreshold ==
    (pc = "returned" /\ self = "LSH") =>
        \A gi \in 1..Len(Out) : \A j1, j2 \in IdsOf(Out[gi]) : j1 = j2 \/ Near(j1, j2)

(* C3 amended: in every group returned by LSHDeduplicator.deduplicate,     *)
(* every image but the first is fewer than 10 bits from some image that    *)
(* precedes it in the group, so any two images of a group are linked by a  *)
(* chain of within-threshold pairs of that group (they need not be within  *)
(* the threshold of each other).                                           *)
C3_ChainSoundness ==
    (pc = "returned" /\ self = "LSH") =>
        \A gi \in 1..Len(Out) : \A p \in 2..Len(Out[gi]) :
            \E q \in 1..(p - 1) : Near(Out[gi][q].id, Out[gi][p].id)

C3_Witness ==
    /\ pc = "returned"
    /\ self = "LSH"
    /\ \E gi \in 1..Len(Out) :
          /\ Len(Out[gi]) = 3
          /\ \E j1, j2 \in IdsOf(Out[gi]) : SameLength(j1, j2) /\ DiffBits(j1, j2) >= 10

(* C4: in every state of an LSHDeduplicator.deduplicate call, every        *)
(* parent-child edge of the duplicates lists joins two fingerprints of the *)
(* same length that differ in fewer than 10 bit positions.                 *)
C4_EdgesThresholdChecked ==
    self = "LSH" =>
        \A parent \in DOMAIN duplicates : \A c \in 1..Len(duplicates[parent]) :
            Near(parent, duplicates[parent][c])

(* An image attached 9 bits from its parent while its bands are scanned,   *)
(* in a bucket that also held a candidate 10 or more bits away.            *)
C4_Witness ==
    /\ self = "LSH"
    /\ pc = "lsh_band"
    /\ ~unique
    /\ \E parent \in DOMAIN duplicates :
          /\ idx \in {duplicates[parent][c] : c \in 1..Len(duplicates[parent])}
          /\ DiffBits(parent, idx) = 9
    /\ \E key \in DOMAIN hash_table : \E c \in 1..Len(hash_table[key]) :
          /\ idx \in {hash_table[key][c2] : c2 \in 1..Len(hash_table[key])}
          /\ SameLength(hash_table[key][c], idx)
          /\ DiffBits(hash_table[key][c], idx) >= 10

(* C5: when both clusterers have returned for the same input, every group  *)
(* of LSHDeduplicator lies inside one group of BruteForceDeduplicator, and *)
(* LSHDeduplicator returned at least as many groups.                       *)
C5_LSHRefinesBruteForce ==
    (returned["LSH"].done /\ returned["BruteForce"].done) =>
        /\ \A gi \in 1..Len(LSHOut) : \E gj \in 1..Len(BFOut) :
              IdsOf(LSHOut[gi]) \subseteq IdsOf(BFOut[gj])
        /\ Len(LSHOut) >= Len(BFOut)

(* A lost merge next to a kept one: two groups against one. *)
C5_Witness ==
    /\ returned["LSH"].done
    /\ returned["BruteForce"].done
    /\ N = 3
    /\ Len(BFOut) = 1
    /\ Len(LSHOut) = 2
    /\ \E j1, j2 \in 1..N : DiffBits(j1, j2) = 10

(* C6: when deduplicate returns and the same clusterer instance returned   *)
(* before for the same input, the two returned sequences of groups are     *)
(* equal (same groups, same members, same order).                          *)
C6_Idempotence ==
    (pc = "returned" /\ prev.done) => returned[self] = prev

C6_Witness ==
    /\ pc = "returned"
    /\ prev.done
    /\ N = 3
    /\ Len(Out) = 2

(* C7: an input of two images whose 64-bit fingerprints differ in 10 or    *)
(* more bit positions is returned by either clusterer as two groups of one *)
(* image each.                                                             *)
C7_ScenarioB ==
    ( /\ pc = "returned"
      /\ N = 2
      /\ Len(hash_func(imgs[1])) = 64
      /\ Len(hash_func(imgs[2])) = 64
      /\ DiffBits(1, 2) >= 10 )
    => Out = <<  <<imgs[1]>>, <<imgs[2]>>  >>

(* Exactly 10 bits apart, met in one bucket by LSHDeduplicator, after      *)
(* BruteForceDeduplicator returned for the same input.                     *)
C7_Witness ==
    /\ pc = "returned"
    /\ self = "LSH"
    /\ returned["BruteForce"].done
    /\ N = 2
    /\ Len(hash_func(imgs[1])) = 64
    /\ DiffBits(1, 2) = 10
    /\ \E key \in DOMAIN hash_table :
          {1, 2} \subseteq {hash_table[key][c] : c \in 1..Len(hash_table[key])}

(* The duplicates relation as a graph on the HashedImage objects. *)
Children(j) == {duplicates[j][c] : c \in 1..Len(duplicates[j])}
TimesListed(j) ==
    Cardinality({pcn \in (DOMAIN duplicates) \X (1..N) :
                    pcn[2] <= Len(duplicates[pcn[1]]) /\ duplicates[pcn[1]][pcn[2]] = j})
Parents(j) == {parent \in DOMAIN duplicates : j \in Children(parent)}

RECURSIVE DescendantsFrom(_)
DescendantsFrom(S) ==
    LET T == S \cup UNION {Children(s) : s \in S}
    IN  IF T = S THEN S ELSE DescendantsFrom(T)
Descendants(j) == DescendantsFrom(Children(j))

Forest ==
    \A j \in DOMAIN duplicates :
        /\ TimesListed(j) <= 1
        /\ j \notin Descendants(j)

(* C8: every step of either clusterer leads to a state in which each       *)
(* HashedImage occurs at most once in all duplicates lists together and    *)
(* none is reachable from itself; and within a call an image that has a    *)
(* parent keeps that parent and is not listed again.                       *)
C8_Forest ==
    [][ /\ Forest'
        /\ calls' = calls =>
              \A j \in DOMAIN duplicates :
                  Parents(j) # {} => Parents(j)' = Parents(j) /\ TimesListed(j)' = 1
      ]_vars

(* An attached image with its parent itself attached, while a later band   *)
(* of the image is still to be scanned.                                    *)
C8_Witness ==
    /\ self = "LSH"
    /\ pc = "lsh_band"
    /\ g <= Len(projections)
    /\ ~unique
    /\ \E parent \in Parents(idx) : Parents(parent) # {}

(* C9: the returned sequence has one group per root, in root order, and    *)
(* each group is the pre-order traversal of the root's tree: it holds the  *)
(* images of exactly the nodes of the tree, each once, every subtree is a  *)
(* contiguous block that starts with its own root, and the blocks of the   *)
(* children of a node follow in duplicates-list order.                     *)
Tree(j) == {j} \cup Descendants(j)
Pos(group, j) == CHOOSE p \in 1..Len(group) : group[p].id = j

PreOrder(group, root) ==
    /\ group[1] = imgs[root]
    /\ \A p \in 1..Len(group) : group[p] = imgs[group[p].id]
    /\ IdsOf(group) = Tree(root)
    /\ Len(group) = Cardinality(Tree(root))
    /\ \A node \in Tree(root) :
          /\ {group[p].id : p \in Pos(group, node)..(Pos(group, node) + Cardinality(Tree(node)) - 1)}
                = Tree(node)
          /\ \A c1, c2 \in 1..Len(duplicates[node]) :
                c1 < c2 => Pos(group, duplicates[node][c1]) < Pos(group, duplicates[node][c2])

C9_FlattenPreOrder ==
    pc = "returned" =>
        /\ Len(Out) = Len(result)
        /\ \A r \in 1..Len(result) : PreOrder(Out[r], result[r])

(* A root with two children whose first child has a child of its own: the *)
(* grandchild is returned before the second child.                         *)
C9_Witness ==
    /\ pc = "returned"
    /\ Len(result) = 1
    /\ Len(duplicates[result[1]]) = 2
    /\ Children(duplicates[result[1]][1]) # {}
    /\ Len(Out[1]) = 4
    /\ Out[1][3].id \in Children(duplicates[result[1]][1])

(* C10: a deduplicate call never returns for an input that yields two      *)
(* fingerprints of different lengths.                                      *)
C10_DimensionMismatchFailFast ==
    pc = "returned" => \A j1, j2 \in 1..N : SameLength(j1, j2)

InCall == pc \in {"lsh_img", "lsh_band", "bf_while", "bf_queue", "bf_scan"}
OneLength == \A j1, j2 \in 1..N : SameLength(j1, j2)

(* A bound on the steps the call has left: every step of a call lowers it. *)
QueueWeight == N + 4
UnmatchedWeight == 2 * N + 8
ImageWeight == Len(projections) + 4
StepsLeft ==
    CASE pc = "lsh_img"  -> (N - idx) * ImageWeight + 1
      [] pc = "lsh_band" -> (N - idx) * ImageWeight + (Len(projections) + 1 - g) + 2
      [] pc = "bf_while" -> Cardinality(Unmatched) * UnmatchedWeight + 1
      [] pc = "bf_queue" -> Cardinality(Unmatched) * UnmatchedWeight
                               + Len(queue) * QueueWeight + 2
      [] pc = "bf_scan"  -> Cardinality(Unmatched) * UnmatchedWeight
                               + Len(queue) * QueueWeight + (N + 1 - i) + 3
      [] OTHER -> 0

(* C12: for an input whose fingerprints all have the same length, a        *)
(* deduplicate call of either clusterer, once entered, eventually returns; *)
(* every step of a call lowers StepsLeft; every pass of the outer loop of  *)
(* the exact clusterer marks a previously unmatched image, and its queue   *)
(* is empty whenever a drain ends.                                         *)
C12_Termination ==
    /\ (InCall /\ OneLength) ~> (pc = "returned")
    /\ [][InCall => StepsLeft' < StepsLeft]_vars
    /\ [][(pc = "bf_while" /\ pc' = "bf_queue")
              => Cardinality(Unmatched') < Cardinality(Unmatched)]_vars
    /\ [][(pc = "bf_queue" /\ pc' = "bf_while") => queue = <<>> /\ queue' = <<>>]_vars

(* The exact clusterer returned after two passes of its outer loop, one of *)
(* which drained a queue that had grown.                                   *)
C12_Witness ==
    /\ pc = "returned"
    /\ self = "BruteForce"
    /\ N = 3
    /\ Len(result) = 2
    /\ \E j \in 1..N : Len(duplicates[j]) = 1

(* C13: the candidates of band g are the earlier images with the same      *)
(* band-g key.                                                             *)
BandKey(j, band) == Key(hash(j), projections[band])
SameBandKey(j1, j2, band) ==
    /\ ~KeyRaises(hash(j1), projections[band])
    /\ ~KeyRaises(hash(j2), projections[band])
    /\ BandKey(j1, band) = BandKey(j2, band)
Bucket(key) == {TableGet(hash_table, key)[c] : c \in 1..Len(TableGet(hash_table, key))}

(* C13: while the approximate clusterer is about to process band g of the  *)
(* image at idx, the images of the bucket it will scan, the image itself   *)
(* left out, are exactly the earlier images whose band-g key equals that   *)
(* of the image; every distance computed so far was between an image and   *)
(* an earlier, different image with the same key in the band being         *)
(* processed.                                                              *)
C13_IndependentTables ==
    self = "LSH" =>
        /\ (pc = "lsh_band" /\ g <= Len(projections)
                /\ ~KeyRaises(hash(idx), projections[g]))
              => Bucket(BandKey(idx, g)) \ {idx}
                    = {j \in 1..(idx - 1) : SameBandKey(j, idx, g)}
        /\ \A e \in 1..Len(trace) :
              trace[e].op = "distance" =>
                  /\ trace[e].cand # trace[e].img
                  /\ trace[e].cand < trace[e].img
                  /\ SameBandKey(trace[e].cand, trace[e].img, trace[e].band)

(* C14: once an LSHDeduplicator is constructed it has l bands of k bit     *)
(* positions each, every position in [0, d), and no position occurs twice  *)
(* within one band.                                                        *)
C14_DistinctWithinBand ==
    projections # <<>> =>
        /\ Len(projections) = l
        /\ \A b \in 1..Len(projections) :
              /\ Len(projections[b]) = k
              /\ \A p \in 1..k : projections[b][p] \in 0..(d - 1)
              /\ \A p, q \in 1..k : p # q => projections[b][p] # projections[b][q]

(* C15: roots come first and in input order.                               *)
RootOf(group) == group[1].id
EarliestFirst(groups) ==
    \A gi \in 1..Len(groups) : \A j \in IdsOf(groups[gi]) : RootOf(groups[gi]) <= j
RootsIncreasing(groups) ==
    \A g1, g2 \in 1..Len(groups) : g1 < g2 => RootOf(groups[g1]) < RootOf(groups[g2])

(* C15: whenever either clusterer returns, the first element of every      *)
(* group is the member of the group earliest in the input, the groups are  *)
(* ordered by increasing input position of their first elements, and for a *)
(* non-empty input the first input image heads the first group; each time  *)
(* the exact clusterer picks a new root it is the earliest image that was  *)
(* still unmatched.                                                        *)
C15_RootOrder ==
    /\ [](pc = "returned" =>
            /\ EarliestFirst(Out)
            /\ RootsIncreasing(Out)
            /\ N > 0 => Out[1][1] = imgs[1])
    /\ [][(pc = "bf_while" /\ pc' = "bf_queue") =>
            /\ result' = Append(result, result'[Len(result')])
            /\ result'[Len(result')] \in Unmatched
            /\ \A j \in Unmatched : result'[Len(result')] <= j]_vars

(* Two groups returned for three images, the first group made of the first *)
(* and the third input image.                                              *)
C15_Witness ==
    /\ pc = "returned"
    /\ N = 3
    /\ Len(Out) = 2
    /\ IdsOf(Out[1]) = {1, 3}
    /\ IdsOf(Out[2]) = {2}

(* C16: the images the approximate clusterer has finished, and the bands   *)
(* it has finished for the image in progress.                              *)
Processed ==
    IF pc = "lsh_band" THEN 1..(idx - 1) ELSE 1..idx
BandsDone(j) ==
    IF pc = "lsh_band" /\ j = idx THEN 1..(g - 1) ELSE 1..Len(projections)

(* C16: while the approximate clusterer runs and when it has returned,     *)
(* every image is in the bucket of its key for every band already          *)
(* processed for it, attached or not, and no attached image is a root or   *)
(* heads a returned group.                                                 *)
C16_StoredInEveryBand ==
    (self = "LSH" /\ pc \in {"lsh_img", "lsh_band", "returned"}) =>
        /\ \A j \in 1..idx : \A b \in BandsDone(j) :
              ~KeyRaises(hash(j), projections[b]) => j \in Bucket(BandKey(j, b))
        /\ \A j \in 1..N : Parents(j) # {} =>
              /\ \A r \in 1..Len(result) : result[r] # j
              /\ pc = "returned" => \A gi \in 1..Len(Out) : RootOf(Out[gi]) # j

(* An attached image that became the parent of a later image.              *)
C16_Witness ==
    /\ self = "LSH"
    /\ pc = "returned"
    /\ \E j \in 1..N :
          /\ Parents(j) # {}
          /\ Children(j) # {}
          /\ \A b \in 1..Len(projections) : j \in Bucket(BandKey(j, b))

(* C17: the parent the scan order determines for image j.  The bucket of   *)
(* band b holds the earlier images stored under the key of j for band b,   *)
(* in input order; bands are scanned in construction order.                *)
InBucketOf(j, b) ==
    {c \in 1..(j - 1) : \E b2 \in 1..Len(projections) : BandKey(c, b2) = BandKey(j, b)}
MatchingBands(j) ==
    {b \in 1..Len(projections) : \E c \in InBucketOf(j, b) : Near(c, j)}
FirstMatch(j) ==
    LET b == CHOOSE b1 \in MatchingBands(j) : \A b2 \in MatchingBands(j) : b1 <= b2
        near == {c \in InBucketOf(j, b) : Near(c, j)}
    IN  CHOOSE c \in near : \A c2 \in near : c <= c2
EventNear(e) == e.num < Threshold * e.den

(* C17: every image the approximate clusterer has finished is attached to  *)
(* the first candidate fewer than 10 bits away in band order and, within a *)
(* bucket, insertion order, and to no other; an image with no such         *)
(* candidate is attached to none.  No distance is computed for an image    *)
(* after a distance below 10 was computed for it.                          *)
C17_FirstMatchWins ==
    (self = "LSH" /\ pc \in {"lsh_img", "returned"}) =>
        /\ \A j \in 1..idx :
              /\ TimesListed(j) <= 1
              /\ Parents(j) = IF MatchingBands(j) = {} THEN {} ELSE {FirstMatch(j)}
        /\ \A e1, e2 \in 1..Len(trace) :
              (e1 < e2 /\ trace[e1].op = "distance" /\ trace[e2].op = "distance"
                   /\ trace[e1].img = trace[e2].img) => ~EventNear(trace[e1])

(* An image attached to a candidate 9 bits away although an earlier image  *)
(* of the same bucket, stored later, is 1 bit away.                        *)
C17_Witness ==
    /\ self = "LSH"
    /\ pc = "returned"
    /\ \E j \in 1..N : \E p \in Parents(j) : \E c \in 1..(j - 1) :
          /\ DiffBits(p, j) = 9
          /\ c # p
          /\ SameLength(c, j)
          /\ DiffBits(c, j) = 1
          /\ \E b \in 1..Len(projections) : {p, c} \subseteq InBucketOf(j, b)

(* C18: every value a clusterer has compared with the threshold is the     *)
(* number of bit positions in which the two fingerprints differ, an        *)
(* integer between 0 and the fingerprint length.                           *)
C18_DistanceIsBitCount ==
    \A e \in 1..Len(trace) :
        (trace[e].op = "distance" /\ SameLength(trace[e].img, trace[e].cand)) =>
            /\ trace[e].num = DiffBits(trace[e].img, trace[e].cand) * trace[e].den
            /\ trace[e].num <= Len(hash(trace[e].img)) * trace[e].den

(* C19: whenever the approximate clusterer returns, any two images with    *)
(* identical fingerprints of d bits are members of the same group.         *)
GroupOf(groups, j) == CHOOSE gi \in 1..Len(groups) : j \in IdsOf(groups[gi])
C19_ExactDuplicatesGrouped ==
    (self = "LSH" /\ pc = "returned") =>
        \A j1, j2 \in 1..N :
            (hash(j1) = hash(j2) /\ Len(hash(j1)) = d) =>
                GroupOf(Out, j1) = GroupOf(Out, j2)

(* Two images with identical fingerprints, an image between them attached  *)
(* elsewhere or a root, returned in one group of three.                    *)
C19_Witness ==
    /\ self = "LSH"
    /\ pc = "returned"
    /\ N = 3
    /\ hash(1) = hash(3)
    /\ hash(1) # hash(2)
    /\ Len(hash(1)) = d
    /\ GroupOf(Out, 1) = GroupOf(Out, 3)

(* C20: how often an event of kind op was recorded for image j in the      *)
(* current call.                                                           *)
Times(op, j) == Cardinality({e \in 1..Len(trace) : trace[e].op = op /\ trace[e].img = j})
InQueue == {queue[q] : q \in 1..Len(queue)}
Roots == {result[r] : r \in 1..Len(result)}

====
